---- MODULE Spec2Model ----
(***************************************************************************)
(* Model of example/sculpt.js: the per-frame sculpting loop (render), the  *)
(* window / orbit-control listeners registered by init, and the brush      *)
(* stroke (region query through bvh.shapecast, displacement of the located *)
(* vertices, refresh of their normals).                                    *)
(*                                                                         *)
(* Numbers.  The program computes in floating point.  The model computes   *)
(* on a fixed-point grid: one length unit is 0.005 (params.size 0.1 is 20  *)
(* units), params.intensity is counted in steps of 0.001, unit vectors are *)
(* scaled by NormalScale.  Squared distances are exact; Math.sqrt inside   *)
(* Vector3.distanceTo is rounded up to the grid, so that `dist > size' is  *)
(* decided exactly as on the reals; every other rounding is to nearest.    *)
(* Vectors are triples <<x, y, z>>.  Buffer attributes are functions on    *)
(* 0 .. n-1, as in the program.                                            *)
(***************************************************************************)
EXTENDS Integers, Sequences, FiniteSets, TLC

(* ------------------------------ bounds -------------------------------- *)
\* Strokes applied in one run of the model (the program has no such limit).
MaxStrokes == 2
\* Scale of unit vectors (face normals, vertex normals) on the grid.
NormalScale == 100
\* Largest half-extent of a box / sphere-centre coordinate probed by RegionProbe.
ProbeExtent == 2

(* ------------------------ program constants --------------------------- *)
\* params.size = 0.1, in units of 0.005
InitSize == 20
\* Math.max( ..., 0.05 )
SizeMin == 10
\* Math.min( params.size, 0.25 )
SizeMax == 50
\* params.intensity = 0.002, in steps of 0.001
InitIntensity == 2
\* sculptFolder.add( params, 'intensity' ).max( 0.01 )
IntensityMax == 10
\* intensity steps (0.001) per length unit (0.005)
IntensityPerUnit == 5
\* deltaMode 1 and 2: delta *= 40
LineFactor == 40
\* params.size += delta * 0.0005: wheel delta per length unit (0.005 / 0.0005)
DeltaPerUnit == 10

CONTAINED == "CONTAINED"
INTERSECTED == "INTERSECTED"
NOT_INTERSECTED == "NOT_INTERSECTED"

(* --------------------------- vector algebra --------------------------- *)
sub(a, b) == <<a[1] - b[1], a[2] - b[2], a[3] - b[3]>>

add(a, b) == <<a[1] + b[1], a[2] + b[2], a[3] + b[3]>>

dot(a, b) == a[1] * b[1] + a[2] * b[2] + a[3] * b[3]

cross(a, b) ==
    <<a[2] * b[3] - a[3] * b[2], a[3] * b[1] - a[1] * b[3], a[1] * b[2] - a[2] * b[1]>>

lengthSq(a) == dot(a, a)

distanceToSquared(a, b) == lengthSq(sub(a, b))

\* Floor of the square root.
RECURSIVE FloorSqrtIn(_, _, _)
FloorSqrtIn(n, lo, hi) ==
    IF lo >= hi THEN lo
    ELSE LET mid == (lo + hi + 1) \div 2 IN
         IF mid * mid <= n THEN FloorSqrtIn(n, mid, hi) ELSE FloorSqrtIn(n, lo, mid - 1)

\* Largest root tried: squares stay within TLC's integers.
SqrtLimit == 46340

FloorSqrt(n) == FloorSqrtIn(n, 0, IF n < SqrtLimit THEN n ELSE SqrtLimit)

\* Square root rounded up to the grid.
CeilSqrt(n) == LET f == FloorSqrt(n) IN IF f * f = n THEN f ELSE f + 1

\* Square root rounded to the nearest grid value.
RoundSqrt(n) == LET f == FloorSqrt(n) IN IF n - f * f <= f THEN f ELSE f + 1

\* a / b rounded to nearest, b > 0.
RoundDiv(a, b) ==
    IF a >= 0 THEN (2 * a + b) \div (2 * b) ELSE 0 - ((2 * (0 - a) + b) \div (2 * b))

\* Vector3.distanceTo
distanceTo(a, b) == CeilSqrt(distanceToSquared(a, b))

(* ------------------------------ geometry ------------------------------ *)
\* targetMesh.geometry: a small folded patch standing in for the sphere mesh:
\* a wall in the plane x = 0 (face normal +x) meeting a floor in the plane
\* z = 0 (face normal +z).
InitPositions ==
    [v \in 0 .. 5 |->
        CASE v = 0 -> <<0, 0, 0>>
          [] v = 1 -> <<0, 8, 0>>
          [] v = 2 -> <<0, 0, 8>>
          [] v = 3 -> <<6, 0, 0>>
          [] v = 4 -> <<6, 8, 0>>
          [] OTHER -> <<27, 0, 0>>]

\* geometry.attributes.normal at construction: unit vectors, not face normals.
InitNormals ==
    [v \in 0 .. 5 |->
        CASE v \in {0, 1} -> <<71, 0, 71>>
          [] v = 2 -> <<NormalScale, 0, 0>>
          [] OTHER -> <<0, 0, NormalScale>>]

\* geometry.index: consecutive triples are the triangles.
IndexList == <<0, 1, 2,   0, 3, 1,   3, 4, 1,   5, 4, 3>>

Vertices == DOMAIN InitPositions

IndexCount == Len(IndexList)

Slots == 0 .. IndexCount - 1

Triangles == 0 .. (IndexCount \div 3) - 1

\* indexAttr.getX( i )
indexAttrGetX(i) == IndexList[i + 1]

TriCorners(t) == {indexAttrGetX(3 * t + k) : k \in 0 .. 2}

(* ---------------------- spatial index (boundsTree) --------------------- *)
\* The bounds tree built once by computeBoundsTree(): node -> triangle range
\* and children (0: none).  Node 1 is the root.
BvhNodes ==
    [n \in 1 .. 5 |->
        CASE n = 1 -> [offset |-> 0, count |-> 4, left |-> 2, right |-> 3]
          [] n = 2 -> [offset |-> 0, count |-> 2, left |-> 0, right |-> 0]
          [] n = 3 -> [offset |-> 2, count |-> 2, left |-> 4, right |-> 5]
          [] n = 4 -> [offset |-> 2, count |-> 1, left |-> 0, right |-> 0]
          [] OTHER -> [offset |-> 3, count |-> 1, left |-> 0, right |-> 0]]

NodeTriangles(n) == BvhNodes[n].offset .. (BvhNodes[n].offset + BvhNodes[n].count - 1)

NodeVertices(n) == UNION {TriCorners(t) : t \in NodeTriangles(n)}

MinOf(S) == CHOOSE x \in S : \A y \in S : x <= y

MaxOf(S) == CHOOSE x \in S : \A y \in S : x >= y

\* Bounding box of a set of points.
BoxOfPoints(P) ==
    [min |-> <<MinOf({p[1] : p \in P}), MinOf({p[2] : p \in P}), MinOf({p[3] : p \in P})>>,
     max |-> <<MaxOf({p[1] : p \in P}), MaxOf({p[2] : p \in P}), MaxOf({p[3] : p \in P})>>]

\* The node boxes are those of the geometry the tree was built from; the
\* program never refits them.
NodeBox(n) == BoxOfPoints({InitPositions[v] : v \in NodeVertices(n)})

(* ---------------------------- sphere tests ---------------------------- *)
Clamp(x, lo, hi) == IF x < lo THEN lo ELSE IF x > hi THEN hi ELSE x

\* Box3.clampPoint
clampPoint(box, p) ==
    <<Clamp(p[1], box.min[1], box.max[1]),
      Clamp(p[2], box.min[2], box.max[2]),
      Clamp(p[3], box.min[3], box.max[3])>>

\* Sphere.intersectsBox
intersectsBox(center, radius, box) ==
    distanceToSquared(clampPoint(box, center), center) <= radius * radius

\* Sphere.containsPoint
containsPoint(center, radius, p) == distanceToSquared(p, center) <= radius * radius

\* The corner visited by the loops x, y, z of the region test.
BoxCorner(box, x, y, z) ==
    <<IF x = 0 THEN box.min[1] ELSE box.max[1],
      IF y = 0 THEN box.min[2] ELSE box.max[2],
      IF z = 0 THEN box.min[3] ELSE box.max[3]>>

\* A seeded fault: the loops stop after the first corner.
RegionTestFirstCorner(box, center, radius) ==
    IF intersectsBox(center, radius, box)
    THEN IF containsPoint(center, radius, BoxCorner(box, 0, 0, 0))
         THEN CONTAINED ELSE INTERSECTED
    ELSE NOT_INTERSECTED

\* A seeded fault: the corner loops are skipped.
RegionTestNoCorners(box, center, radius) ==
    IF intersectsBox(center, radius, box) THEN CONTAINED ELSE NOT_INTERSECTED

\* The first callback of bvh.shapecast: box => { ... }
RegionTest(box, center, radius) ==
    LET intersects == intersectsBox(center, radius, box) IN
    IF intersects
    THEN IF \E x \in 0 .. 1, y \in 0 .. 1, z \in 0 .. 1 :
               ~containsPoint(center, radius, BoxCorner(box, x, y, z))
         THEN INTERSECTED
         ELSE CONTAINED
    ELSE IF intersects THEN INTERSECTED ELSE NOT_INTERSECTED

\* point-to-segment test: is some point of segment a-b within radius of p ?
SegmentWithin(p, radius, a, b) ==
    LET ab == sub(b, a)
        ap == sub(p, a)
        L == lengthSq(ab)
        t == dot(ap, ab)
    IN  IF t <= 0 THEN lengthSq(ap) <= radius * radius
        ELSE IF t >= L THEN distanceToSquared(p, b) <= radius * radius
        ELSE lengthSq(ap) * L - t * t <= radius * radius * L

\* tri.intersectsSphere( sphere ): the closest point of the triangle to the
\* centre is within the radius.
intersectsSphere(a, b, c, center, radius) ==
    LET n == cross(sub(b, a), sub(c, a))
        nn == lengthSq(n)
        h == dot(n, sub(center, a))
        inside ==
            /\ nn > 0
            /\ dot(cross(sub(b, a), sub(center, a)), n) >= 0
            /\ dot(cross(sub(c, b), sub(center, b)), n) >= 0
            /\ dot(cross(sub(a, c), sub(center, c)), n) >= 0
    IN  \/ inside /\ h * h <= radius * radius * nn
        \/ SegmentWithin(center, radius, a, b)
        \/ SegmentWithin(center, radius, b, c)
        \/ SegmentWithin(center, radius, c, a)

\* The second callback of bvh.shapecast: ( tri, a, b, c, contained ) => { ... };
\* a, b, c are the places of the triangle's corners in the index attribute.
\* The result is what it pushes onto `indices'.
PrimitiveTest(pos, a, b, c, contained, center, radius) ==
    IF \/ contained
       \/ intersectsSphere(pos[indexAttrGetX(a)], pos[indexAttrGetX(b)],
                           pos[indexAttrGetX(c)], center, radius)
    THEN <<a, b, c>>
    ELSE <<>>

\* The traversal hands the triangles offset .. offset + count - 1 to the
\* second callback, in order.
RECURSIVE iterateOverTriangles(_, _, _, _, _, _)
iterateOverTriangles(offset, count, pos, contained, center, radius) ==
    IF count = 0 THEN <<>>
    ELSE PrimitiveTest(pos, 3 * offset, 3 * offset + 1, 3 * offset + 2,
                       contained, center, radius)
         \o iterateOverTriangles(offset + 1, count - 1, pos, contained, center, radius)

\* bvh.shapecast from node n: a NOT_INTERSECTED node is pruned, the triangles
\* of a CONTAINED node are all handed over as contained, an INTERSECTED node
\* is descended, its leaves' triangles handed over for the precise test.
RECURSIVE shapecast(_, _, _, _)
shapecast(n, pos, center, radius) ==
    LET node == BvhNodes[n]
        res == RegionTest(NodeBox(n), center, radius)
    IN  IF res = NOT_INTERSECTED THEN <<>>
        ELSE IF res = CONTAINED
        THEN iterateOverTriangles(node.offset, node.count, pos, TRUE, center, radius)
        ELSE IF node.left = 0
        THEN iterateOverTriangles(node.offset, node.count, pos, FALSE, center, radius)
        ELSE shapecast(node.left, pos, center, radius)
             \o shapecast(node.right, pos, center, radius)

(* ------------------------------- stroke ------------------------------- *)
\* const indexSet = new Set( indices ): the first occurrence of each value,
\* in insertion order (the order forEach visits them).
RECURSIVE SetOrder(_, _)
SetOrder(seq, seen) ==
    IF seq = <<>> THEN <<>>
    ELSE IF Head(seq) \in seen THEN SetOrder(Tail(seq), seen)
    ELSE <<Head(seq)>> \o SetOrder(Tail(seq), seen \cup {Head(seq)})

\* tempVec.addScaledVector( tempVec3, intensity * params.intensity ) with
\* intensity = 1.0 - dist / params.size; dir is scaled by NormalScale.
addScaledVector(p, dir, dist, sz, intens) ==
    LET d(k) == RoundDiv(dir[k] * (sz - dist) * intens, sz * NormalScale * IntensityPerUnit)
    IN  <<p[1] + d(1), p[2] + d(2), p[3] + d(3)>>

\* if ( dist > params.size ) return;
OutOfRange(dist, sz) == dist > sz

\* A seeded fault: the distance cut-off is dropped.
DisplaceVisitNoCutoff(i, st, center, dir, sz, intens) ==
    LET index == indexAttrGetX(i)
        tempVec == st.pos[index]
        dist == distanceTo(tempVec, center)
    IN  [pos |-> [st.pos EXCEPT ![index] = addScaledVector(tempVec, dir, dist, sz, intens)],
         map |-> [st.map EXCEPT ![index] = Append(@, i \div 3)]]

\* A seeded fault: the incidence entry is recorded before the distance test.
DisplaceVisitRecordFirst(i, st, center, dir, sz, intens) ==
    LET index == indexAttrGetX(i)
        tempVec == st.pos[index]
        dist == distanceTo(tempVec, center)
        map2 == [st.map EXCEPT ![index] = Append(@, i \div 3)]
    IN  IF OutOfRange(dist, sz) THEN [pos |-> st.pos, map |-> map2]
        ELSE [pos |-> [st.pos EXCEPT ![index] = addScaledVector(tempVec, dir, dist, sz, intens)],
              map |-> map2]

\* The body of indexSet.forEach( i => { ... } ) for one element i: st.pos is
\* posAttr, st.map is indexToTriangles (<<>>: no entry).
DisplaceVisit(i, st, center, dir, sz, intens) ==
    LET index == indexAttrGetX(i)
        tempVec == st.pos[index]
        dist == distanceTo(tempVec, center)
    IN  IF OutOfRange(dist, sz) THEN st
        ELSE [pos |-> [st.pos EXCEPT ![index] = addScaledVector(tempVec, dir, dist, sz, intens)],
              map |-> [st.map EXCEPT ![index] = Append(@, i \div 3)]]

\* indexSet.forEach( ... )
RECURSIVE DisplacePass(_, _, _, _, _, _)
DisplacePass(order, st, center, dir, sz, intens) ==
    IF order = <<>> THEN st
    ELSE LET next == DisplaceVisit(Head(order), st, center, dir, sz, intens) IN
         \* (the test makes TLC compute `next' before it goes on)
         IF next.pos \in [Vertices -> Seq(Int)]
         THEN DisplacePass(Tail(order), next, center, dir, sz, intens)
         ELSE st

\* Triangle.getNormal: the unit normal of a, b, c, scaled by NormalScale.
getNormal(a, b, c) ==
    LET n == cross(sub(c, b), sub(a, b))
        l == lengthSq(n)
        r == RoundSqrt(l)
    IN  IF l > 0
        THEN <<RoundDiv(n[1] * NormalScale, r), RoundDiv(n[2] * NormalScale, r),
               RoundDiv(n[3] * NormalScale, r)>>
        ELSE <<0, 0, 0>>

\* The normal of the triangle whose corners are at i3, i3 + 1, i3 + 2 of the
\* index attribute.
TriangleNormalAt(pos, i3) ==
    getNormal(pos[indexAttrGetX(i3)], pos[indexAttrGetX(i3 + 1)], pos[indexAttrGetX(i3 + 2)])

\* for ( const tri in arr ): the values `tri' takes, in order.  for ... in
\* enumerates the property names of the array, "0" .. "length - 1".
ForInArray(arr) == [k \in 1 .. Len(arr) |-> k - 1]

RECURSIVE SumTriangleNormals(_, _)
SumTriangleNormals(pos, tris) ==
    IF tris = <<>> THEN <<0, 0, 0>>
    ELSE add(TriangleNormalAt(pos, Head(tris) * 3), SumTriangleNormals(pos, Tail(tris)))

\* tempVec.multiplyScalar( 1 / arr.length )
MeanOf(sum, count) ==
    <<RoundDiv(sum[1], count), RoundDiv(sum[2], count), RoundDiv(sum[3], count)>>

\* The body of for ( const index in indexToTriangles ): the normal written.
RefreshedNormal(pos, arr) == MeanOf(SumTriangleNormals(pos, ForInArray(arr)), Len(arr))

\* The keys of indexToTriangles.
MapKeys(map) == {v \in DOMAIN map : map[v] # <<>>}

\* if ( indices.length ) { for ( const index in indexToTriangles ) ... }
NormalPass(indices, map, pos, nrm) ==
    IF Len(indices) > 0
    THEN [v \in DOMAIN nrm |-> IF v \in MapKeys(map) THEN RefreshedNormal(pos, map[v]) ELSE nrm[v]]
    ELSE nrm

\* The block guarded by if ( mouseState || lastMouseState ): region query,
\* displacement, normal refresh.
ApplyStroke(pos, nrm, center, dir, sz, intens) ==
    LET indices == shapecast(1, pos, center, sz)
        emptyMap == [v \in DOMAIN pos |-> <<>>]
        after == DisplacePass(SetOrder(indices, {}), [pos |-> pos, map |-> emptyMap],
                              center, dir, sz, intens)
    IN  [pos |-> after.pos,
         nrm |-> NormalPass(indices, after.map, after.pos, nrm),
         indices |-> indices,
         map |-> after.map]

(* -------------------------------- state ------------------------------- *)
VARIABLES
    size,            \* params.size
    intensity,       \* params.intensity
    mouseState,      \* mouseState
    lastMouseState,  \* lastMouseState
    controlsActive,  \* controls.active
    controlsEnabled, \* controls.enabled
    brushVisible,    \* brush.visible
    cursor,          \* what the picking ray through `mouse' meets: <<>> or <<triangle>>
    positions,       \* geometry.attributes.position
    normals,         \* geometry.attributes.normal
    stroke,          \* history: the last stroke applied (its inputs and locals)
    frameKind,       \* history: the branch of render() the last frame took
    click,           \* history: fate of the last press made over the mesh
    sawPress,        \* history: which frames have observed the current press
    probe            \* a region-test call and its result (RegionSpec only)

vars ==
    <<size, intensity, mouseState, lastMouseState, controlsActive, controlsEnabled,
      brushVisible, cursor, positions, normals, stroke, frameKind, click, sawPress, probe>>

\* Triangles the picking ray is let to meet.
HitTargets == {0, 3}

CursorPlaces == {<<>>} \cup {<<t>> : t \in HitTargets}

\* e.deltaY offered to the wheel listener, by e.deltaMode.
WheelDeltas(mode) ==
    IF mode = 0 THEN {0 - 1000, 0 - 400, 400, 1000} ELSE {0 - 25, 0 - 10, 10, 25}

\* Values the intensity slider is moved to: the top of its range.
GuiIntensities == {IntensityMax}

NoProbe ==
    [box |-> [min |-> <<0, 0, 0>>, max |-> <<0, 0, 0>>], center |-> <<0, 0, 0>>,
     radius |-> 1, result |-> CONTAINED]

Init ==
    /\ size = InitSize
    /\ intensity = InitIntensity
    /\ mouseState = FALSE
    /\ lastMouseState = FALSE
    /\ controlsActive = FALSE
    /\ controlsEnabled = TRUE
    /\ brushVisible = TRUE
    /\ cursor = <<>>
    /\ positions = InitPositions
    /\ normals = InitNormals
    /\ stroke = [n |-> 0, pre |-> InitPositions, preNormals |-> InitNormals,
                 center |-> <<0, 0, 0>>, dir |-> <<0, 0, 0>>, radius |-> InitSize,
                 intensity |-> InitIntensity, indices |-> <<>>,
                 map |-> [v \in Vertices |-> <<>>]]
    /\ frameKind = "none"
    /\ click = "none"
    /\ sawPress = "no"
    /\ probe = NoProbe

(* ------------------------------ listeners ----------------------------- *)
\* History kept when a listener sets mouseState to `pressed'.
PressHistory(pressed) ==
    IF pressed /\ ~mouseState
    THEN /\ sawPress' = "no"
         /\ click' = IF cursor # <<>> /\ ~controlsActive THEN "pending" ELSE "none"
    ELSE UNCHANGED <<sawPress, click>>

\* window 'mousemove'
MouseMove ==
    \E c \in CursorPlaces :
        /\ c # cursor
        /\ cursor' = c
        /\ click' = IF c = <<>> /\ click = "pending" THEN "none" ELSE click
        /\ UNCHANGED <<size, intensity, mouseState, lastMouseState, controlsActive,
                       controlsEnabled, brushVisible, positions, normals, stroke,
                       frameKind, sawPress, probe>>

\* Boolean( e.buttons & 1 )
PrimaryButton(buttons) == buttons % 2 = 1

\* window 'mousedown'.  e.buttons holds the button that went down; the primary
\* bit, once set, is cleared by a mouseup only.
MouseDown ==
    \E buttons \in 1 .. 3 :
        /\ mouseState => PrimaryButton(buttons)
        /\ mouseState' = PrimaryButton(buttons)
        /\ PressHistory(PrimaryButton(buttons))
        /\ UNCHANGED <<size, intensity, lastMouseState, controlsActive, controlsEnabled,
                       brushVisible, cursor, positions, normals, stroke, frameKind, probe>>

\* window 'mouseup'.  e.buttons holds the buttons still down; the primary bit
\* is set by a mousedown only.
MouseUp ==
    \E buttons \in 0 .. 2 :
        /\ PrimaryButton(buttons) => mouseState
        /\ mouseState' = PrimaryButton(buttons)
        /\ PressHistory(PrimaryButton(buttons))
        /\ UNCHANGED <<size, intensity, lastMouseState, controlsActive, controlsEnabled,
                       brushVisible, cursor, positions, normals, stroke, frameKind, probe>>

\* controls 'start': the orbit controls begin a gesture only while enabled.
ControlsStart ==
    /\ controlsEnabled
    /\ ~controlsActive
    /\ controlsActive' = TRUE
    /\ click' = IF click = "pending" THEN "none" ELSE click
    /\ UNCHANGED <<size, intensity, mouseState, lastMouseState, controlsEnabled,
                   brushVisible, cursor, positions, normals, stroke, frameKind,
                   sawPress, probe>>

\* controls 'end'
ControlsEnd ==
    /\ controlsActive
    /\ controlsActive' = FALSE
    /\ UNCHANGED <<size, intensity, mouseState, lastMouseState, controlsEnabled,
                   brushVisible, cursor, positions, normals, stroke, frameKind, click,
                   sawPress, probe>>

\* A seeded fault: the lower clamp is dropped.
ClampSizeUpperOnly(s) == IF s > SizeMax THEN SizeMax ELSE s

\* Math.max( Math.min( params.size, 0.25 ), 0.05 )
ClampSize(s) == LET m == IF s > SizeMax THEN SizeMax ELSE s IN IF m < SizeMin THEN SizeMin ELSE m

\* window 'wheel'
Wheel ==
    \E deltaMode \in 0 .. 2 :
        \E deltaY \in WheelDeltas(deltaMode) :
            LET delta == IF deltaMode = 0 THEN deltaY ELSE deltaY * LineFactor IN
            /\ size' = ClampSize(size + delta \div DeltaPerUnit)
            /\ size' # size
            /\ UNCHANGED <<intensity, mouseState, lastMouseState, controlsActive,
                           controlsEnabled, brushVisible, cursor, positions, normals,
                           stroke, frameKind, click, sawPress, probe>>

\* sculptFolder.add( params, 'intensity' ): the slider sets params.intensity.
SetIntensity ==
    \E v \in GuiIntensities :
        /\ v # intensity
        /\ intensity' = v
        /\ UNCHANGED <<size, mouseState, lastMouseState, controlsActive, controlsEnabled,
                       brushVisible, cursor, positions, normals, stroke, frameKind,
                       click, sawPress, probe>>

(* -------------------------------- render ------------------------------ *)
\* A seeded fault: the gesture flag is not consulted.
GestureIgnored(active) == FALSE

\* if ( controls.active )
GestureActive(active) == active

\* if ( mouseState || lastMouseState )
StrokeGate(ms, lms) == ms \/ lms

\* raycaster.intersectObject( targetMesh, true )[ 0 ]: the ray meets the
\* cursor's triangle at its first corner; face.normal is that triangle's.
Hit ==
    [point |-> positions[indexAttrGetX(3 * cursor[1])],
     normal |-> TriangleNormalAt(positions, 3 * cursor[1])]

\* History kept by a frame.
FrameHistory(kind) ==
    /\ frameKind' = kind
    /\ sawPress' =
           IF ~mouseState THEN sawPress
           ELSE IF kind = "gesture" THEN (IF sawPress = "no" THEN "gesture" ELSE sawPress)
           ELSE "plain"
    /\ click' =
           IF click # "pending" THEN click
           ELSE IF kind = "stroke" THEN "done" ELSE "missed"

\* One call of render().
render ==
    /\ lastMouseState' = mouseState
    /\ UNCHANGED <<size, intensity, mouseState, controlsActive, cursor, probe>>
    /\ IF GestureActive(controlsActive)
       THEN /\ brushVisible' = FALSE
            /\ FrameHistory("gesture")
            /\ UNCHANGED <<controlsEnabled, positions, normals, stroke>>
       ELSE IF cursor = <<>>
       THEN /\ controlsEnabled' = TRUE
            /\ brushVisible' = FALSE
            /\ FrameHistory("miss")
            /\ UNCHANGED <<positions, normals, stroke>>
       ELSE /\ brushVisible' = TRUE
            /\ controlsEnabled' = FALSE
            /\ IF StrokeGate(mouseState, lastMouseState)
               THEN LET hit == Hit
                        done == ApplyStroke(positions, normals, hit.point, hit.normal,
                                            size, intensity)
                    IN  /\ stroke.n < MaxStrokes
                        /\ positions' = done.pos
                        /\ normals' = done.nrm
                        /\ stroke' = [n |-> stroke.n + 1, pre |-> positions,
                                      preNormals |-> normals, center |-> hit.point,
                                      dir |-> hit.normal, radius |-> size,
                                      intensity |-> intensity, indices |-> done.indices,
                                      map |-> done.map]
                        /\ FrameHistory("stroke")
               ELSE /\ FrameHistory("hover")
                    /\ UNCHANGED <<positions, normals, stroke>>

Next ==
    \/ MouseMove
    \/ MouseDown
    \/ MouseUp
    \/ ControlsStart
    \/ ControlsEnd
    \/ Wheel
    \/ SetIntensity
    \/ render

Spec == Init /\ [][Next]_vars

(* ----------------------- region test in isolation --------------------- *)
\* Boxes and spheres handed to the region test.
ProbeBoxes ==
    {[min |-> m, max |-> add(m, e)] :
        m \in {<<x, y, z>> : x \in -1 .. 0, y \in -1 .. 0, z \in -1 .. 0},
        e \in {<<x, y, z>> : x \in 0 .. ProbeExtent - 1, y \in 0 .. ProbeExtent - 1,
                              z \in 0 .. ProbeExtent - 1}}

ProbeCenters ==
    {<<x, y, z>> : x \in -ProbeExtent .. ProbeExtent, y \in -ProbeExtent .. ProbeExtent,
                   z \in 0 .. ProbeExtent}

ProbeRadii == 1 .. ProbeExtent

\* One call of the region test on a box and a sphere; a behaviour makes one.
RegionProbe ==
    /\ probe = NoProbe
    /\ \E b \in ProbeBoxes, c \in ProbeCenters, r \in ProbeRadii :
        /\ probe' = [box |-> b, center |-> c, radius |-> r, result |-> RegionTest(b, c, r)]
        /\ UNCHANGED <<size, intensity, mouseState, lastMouseState, controlsActive,
                       controlsEnabled, brushVisible, cursor, positions, normals, stroke,
                       frameKind, click, sawPress>>

RegionNext == RegionProbe

RegionSpec == Init /\ [][RegionNext]_vars

(* ------------------------------- claims ------------------------------- *)
\* The triangles the last stroke's traversal accepted.
AcceptedTriangles == {stroke.indices[k] \div 3 : k \in 1 .. Len(stroke.indices)}

\* Every corner of every accepted triangle.
Touched == UNION {TriCorners(t) : t \in AcceptedTriangles}

\* Distance of a vertex to the brush centre before the last stroke.
PreDist(v) == distanceTo(stroke.pre[v], stroke.center)

InRange(v) == PreDist(v) <= stroke.radius

\* pre-stroke position + reference direction * (1 - dist / radius) * intensity
DisplacedOnce(v) ==
    addScaledVector(stroke.pre[v], stroke.dir, PreDist(v), stroke.radius, stroke.intensity)

\* The vertices whose position and normal the last stroke wrote.
Written == MapKeys(stroke.map)

RECURSIVE AscendingSeq(_)
AscendingSeq(S) == IF S = {} THEN <<>> ELSE <<MinOf(S)>> \o AscendingSeq(S \ {MinOf(S)})

\* The accepted triangles that have v as a corner.
IncidentAccepted(v) == {t \in AcceptedTriangles : v \in TriCorners(t)}

\* Does triangle t, at positions pos, meet the last stroke's sphere ?
MeetsSphere(pos, t) ==
    intersectsSphere(pos[indexAttrGetX(3 * t)], pos[indexAttrGetX(3 * t + 1)],
                     pos[indexAttrGetX(3 * t + 2)], stroke.center, stroke.radius)

InBox(p, box) == \A k \in 1 .. 3 : box.min[k] <= p[k] /\ p[k] <= box.max[k]

\* Every node box bounds the triangles under the node, at positions pos.
BoxesBound(pos) == \A n \in DOMAIN BvhNodes : \A v \in NodeVertices(n) : InBox(pos[v], NodeBox(n))

\* C1 (as claimed): after a stroke, every vertex that is a corner of an
\* accepted triangle and was within the radius before the stroke sits at its
\* pre-stroke position displaced once, however many accepted triangles share it.
C1_DisplacedOnceFromPreStroke ==
    stroke.n > 0 => \A v \in Touched : InRange(v) => positions[v] = DisplacedOnce(v)

\* C2 (as claimed): after a stroke, the normal written for a vertex is the
\* mean of the face normals, at the post-stroke positions, of exactly the
\* accepted triangles that have the vertex as a corner.
C2_NormalIsMeanOfIncidentFaces ==
    stroke.n > 0 => \A v \in Written :
        normals[v] = MeanOf(SumTriangleNormals(positions, AscendingSeq(IncidentAccepted(v))),
                            Cardinality(IncidentAccepted(v)))

\* C3: distance cut-off.  Every vertex the stroke wrote was within the radius
\* of the brush centre before the stroke, and every vertex that was farther
\* than the radius keeps its pre-stroke position.
C3_DistanceCutoff ==
    stroke.n > 0 => \A v \in Vertices :
        /\ v \in Written => InRange(v)
        /\ positions[v] # stroke.pre[v] => InRange(v)
        /\ ~InRange(v) => positions[v] = stroke.pre[v]

\* C3 witness: a stroke moved a vertex and left alone a corner of an accepted
\* triangle that lay outside the radius.
C3_Witness ==
    /\ stroke.n > 0
    /\ \E v \in Touched : ~InRange(v) /\ positions[v] = stroke.pre[v]
    /\ \E w \in Touched : InRange(w) /\ positions[w] # stroke.pre[w]

\* C4: the region test returns one of the three classifications: CONTAINED
\* iff all eight corners of the box are inside the sphere, NOT_INTERSECTED iff
\* every point of the box is farther from the centre than the radius,
\* INTERSECTED otherwise.
C4_RegionClassification ==
    LET b == probe.box
        c == probe.center
        rr == probe.radius * probe.radius
        corners == {<<x, y, z>> : x \in {b.min[1], b.max[1]}, y \in {b.min[2], b.max[2]},
                                  z \in {b.min[3], b.max[3]}}
        points == {<<x, y, z>> : x \in b.min[1] .. b.max[1], y \in b.min[2] .. b.max[2],
                                 z \in b.min[3] .. b.max[3]}
        allInside == \A p \in corners : distanceToSquared(p, c) <= rr
        apart == \A p \in points : distanceToSquared(p, c) > rr
    IN  /\ probe.result \in {CONTAINED, INTERSECTED, NOT_INTERSECTED}
        /\ (probe.result = CONTAINED) <=> allInside
        /\ (probe.result = NOT_INTERSECTED) <=> apart
        /\ (probe.result = INTERSECTED) <=> (~allInside /\ ~apart)

\* C4 witness: a box with distinct corners was classified CONTAINED.
C4_Witness ==
    /\ probe.result = CONTAINED
    /\ \A k \in 1 .. 3 : probe.box.min[k] < probe.box.max[k]

C6_GestureSuppressesSculpting ==
    [][(positions' # positions \/ normals' # normals \/ stroke' # stroke)
          => (~controlsActive /\ brushVisible' /\ frameKind' = "stroke")]_vars

\* C6 witness: a frame ran during a gesture with the button pressed and the
\* cursor over the mesh, after an earlier stroke.
C6_Witness ==
    /\ frameKind = "gesture"
    /\ controlsActive
    /\ mouseState
    /\ lastMouseState
    /\ cursor # <<>>
    /\ stroke.n > 0

\* C7 (as claimed): a press made over the mesh with no gesture active, the
\* cursor staying over the mesh, is never passed over by the next frame.
C7_EveryPressStrokes == click # "missed"

\* C8: the brush radius stays within [0.05, 0.25], and the radius used by a
\* stroke is positive.
C8_RadiusValid ==
    /\ size \in SizeMin .. SizeMax
    /\ size > 0
    /\ stroke.radius \in SizeMin .. SizeMax
    /\ stroke.radius > 0

\* C8 witness: wheel events brought the radius to its lower limit, a stroke
\* used it, and a later wheel event raised it.
C8_Witness == stroke.n > 0 /\ stroke.radius = SizeMin /\ size = SizeMax

\* C9 (as claimed): in every stroke the accepted triangles are exactly the
\* triangles that meet the brush sphere at their current positions.
C9_RegionQueryExact ==
    stroke.n > 0 => AcceptedTriangles = {t \in Triangles : MeetsSphere(stroke.pre, t)}

\* C9 (amended): the same, for the strokes in which every node box of the
\* index still bounds the current positions of the triangles under it.
C9_RegionQueryExactWhileBoxesBound ==
    stroke.n > 0 /\ BoxesBound(stroke.pre) =>
        AcceptedTriangles = {t \in Triangles : MeetsSphere(stroke.pre, t)}

\* C9 witness: a stroke on geometry the boxes bound accepted some triangles
\* and not others.
C9_Witness ==
    /\ stroke.n > 0
    /\ BoxesBound(stroke.pre)
    /\ AcceptedTriangles # {}
    /\ AcceptedTriangles # Triangles

\* C10 (as claimed): when every frame that saw the button pressed saw the
\* gesture flag set, and the button is released, no frame writes a position
\* or a normal before the next press.
C10_GestureOnlyPressNeverSculpts ==
    ~(frameKind = "stroke" /\ ~lastMouseState /\ sawPress = "gesture" /\ Written # {})

====
